---- MODULE Spec2Model ----
(***************************************************************************)
(* A model of the error-chain runtime (src/src/lib.rs): the chained-error  *)
(* value (kind + State{next_error, backtrace}), the Iter over causes, the  *)
(* DisplayChain renderer, State::default / State::new, and the bail! and   *)
(* ensure! early-return macros.  The code that error_chain! generates per  *)
(* family (from_kind, with_chain, chain_err, the From conversions), the    *)
(* backtrace capsule and quick_main! live in modules that are not part of  *)
(* lib.rs; they are modelled from the design description and marked so.    *)
(*                                                                         *)
(* Values.  Option<T> is a sequence of length 0 (None) or 1 (Some).        *)
(* An error value is a record                                              *)
(*     [fam, kind, state |-> [next_error, backtrace]]                      *)
(* fam "A" and "B" are two declared families (A links B, B links nothing), *)
(* fam "F" is a foreign std error: it has no State of its own, its         *)
(* next_error field stands for its own cause() and its backtrace is 0.     *)
(* An InternalBacktrace is a number: 0 is "no backtrace", n > 0 is the     *)
(* n-th snapshot taken by the process (the identity of the shared Arc).    *)
(***************************************************************************)
EXTENDS Integers, Sequences, FiniteSets, TLC

\* Longest cause chain the model builds.
MaxDepth == 3
\* A new failure begins only while fewer snapshots than this were taken.
MaxCaptures == 2

None == <<>>
Some(x) == <<x>>

Families == {"A", "B"}

\* links { OtherError(other::Error, other::ErrorKind) }: family A links B.
Links(fam) == IF fam = "A" THEN {"B"} ELSE {}

(***************************************************************************)
(* Kinds.  [tag, arg, inner]: arg is the variant's payload string, inner   *)
(* the embedded kind of a link variant.                                    *)
(***************************************************************************)
Kind(tag, arg) == [tag |-> tag, arg |-> arg, inner |-> None]

Msg(s) == Kind("Msg", s)

InvalidToolchainName(t) == Kind("InvalidToolchainName", t)

BadStuff == Kind("BadStuff", "")

\* ErrorKind::OtherError(other::ErrorKind): the other family's kind, embedded.
LinkKind(k) == [tag |-> "Link", arg |-> "", inner |-> Some(k)]

\* The kinds a caller hands to from_kind / with_chain / chain_err.
KindsOf(fam) ==
    IF fam = "A"
    THEN {InvalidToolchainName("xyzzy"), Msg("something went wrong")}
    ELSE {BadStuff, Msg("something went wrong")}

\* Foreign errors: description (= display) of a std error (ParseIntError).
ForeignDescs == {"invalid digit found in string"}

\* The errors { .. } variants: description(..) and display(..).
OwnDescription(k) ==
    IF k.tag = "InvalidToolchainName" THEN "invalid toolchain name"
    ELSE "bad stuff"

OwnDisplay(k) ==
    IF k.tag = "InvalidToolchainName"
    THEN "invalid toolchain name: '" \o k.arg \o "'"
    ELSE "bad stuff"

\* ErrorKind::description(): a message is its string, a link variant
\* forwards to the embedded kind, a foreign-link variant and a std error
\* carry their text in arg.
RECURSIVE KindDescription(_)
KindDescription(k) ==
    CASE k.tag \in {"InvalidToolchainName", "BadStuff"} -> OwnDescription(k)
      [] k.tag = "Link" -> KindDescription(k.inner[1])
      [] k.tag \in {"Msg", "Foreign", "Std"} -> k.arg

\* impl Display for ErrorKind
RECURSIVE KindDisplay(_)
KindDisplay(k) ==
    CASE k.tag \in {"InvalidToolchainName", "BadStuff"} -> OwnDisplay(k)
      [] k.tag = "Link" -> KindDisplay(k.inner[1])
      [] k.tag \in {"Msg", "Foreign", "Std"} -> k.arg

\* ErrorKind::Fmt(..): the foreign_links variant; "the description ...
\* will forward to the description ... of the original error".
ForeignLinkKind(f) == Kind("Foreign", KindDescription(f.kind))

\* foreign_links { Fmt(::std::fmt::Error) }: declared by family A only.
HasForeignLink(fam) == fam = "A"

(***************************************************************************)
(* Backtrace capsule and State.                                            *)
(***************************************************************************)
\* InternalBacktrace::new(): a fresh snapshot when capture is enabled by
\* the process-wide setting, the empty capsule otherwise.
InternalBacktraceNew(en, caps) == IF en THEN caps + 1 ELSE 0

\* The number of snapshots taken once a state with backtrace bt was built.
CapturesAfter(caps, bt) == IF bt > caps THEN bt ELSE caps

State_default_NoCapture(en, caps) == [next_error |-> None, backtrace |-> 0]

\* impl Default for State
State_default(en, caps) ==
    [next_error |-> None, backtrace |-> InternalBacktraceNew(en, caps)]

\* ChainedError::new(kind, state)
Error(fam, k, state) == [fam |-> fam, kind |-> k, state |-> state]

\* A foreign (std) error with an optional cause of its own.
ForeignError(desc, cause) ==
    Error("F", Kind("Std", desc), [next_error |-> cause, backtrace |-> 0])

IsChained(e) == e.fam \in Families

\* The error types family fam can recognise behind a &Error: its own
\* Error and the Error of each family it links.
Compatible(fam, e) == e.fam = fam \/ e.fam \in Links(fam)

\* ChainedError::extract_backtrace for family fam: the backtrace of e's
\* State when e is an error of fam or of a family fam links, else None.
extract_backtrace(fam, e) ==
    IF Compatible(fam, e)
    THEN Some(e.state.backtrace)
    ELSE None

State_new_AlwaysCaptures(fam, e, en, caps) ==
    [next_error |-> Some(e), backtrace |-> InternalBacktraceNew(en, caps)]

State_new_DropsCause(fam, e, en, caps) ==
    LET x == extract_backtrace(fam, e)
    IN  [next_error |-> None,
         backtrace |-> IF x # None THEN x[1] ELSE InternalBacktraceNew(en, caps)]

State_new_NeverCaptures(fam, e, en, caps) ==
    LET x == extract_backtrace(fam, e)
    IN  [next_error |-> Some(e),
         backtrace |-> IF x # None THEN x[1] ELSE 0]

State_new_CauseBacktrace(fam, e, en, caps) ==
    LET x == extract_backtrace(fam, e)
        c == IF IsChained(e) THEN e.state.next_error ELSE None
    IN  [next_error |-> Some(e),
         backtrace |-> IF x = None THEN InternalBacktraceNew(en, caps)
                       ELSE IF c # None /\ IsChained(c[1])
                            THEN c[1].state.backtrace
                            ELSE x[1]]

\* State::new::<CE>(e)
State_new(fam, e, en, caps) ==
    LET x == extract_backtrace(fam, e)
    IN  [next_error |-> Some(e),
         backtrace |-> IF x # None THEN x[1] ELSE InternalBacktraceNew(en, caps)]

(***************************************************************************)
(* What error_chain! generates for a family.                               *)
(***************************************************************************)
\* Error::from_kind(kind)
from_kind(fam, k, en, caps) == Error(fam, k, State_default(en, caps))

\* Error::with_chain(error, kind)
with_chain(fam, e, k, en, caps) == Error(fam, k, State_new(fam, e, en, caps))

\* Error::chain_err(self, || kind): with_chain(self, kind) in self's family.
chain_err(self, k, en, caps) == with_chain(self.fam, self, k, en, caps)

\* impl From<other::Error> for Error (links): the kind is embedded, the
\* State (predecessor and backtrace) moves over as it is.
from_link_DropsBacktrace(fam, e) ==
    Error(fam, LinkKind(e.kind),
          [next_error |-> e.state.next_error, backtrace |-> 0])

from_link(fam, e) == Error(fam, LinkKind(e.kind), e.state)

\* impl From<ForeignType> for Error (foreign_links): the foreign error is
\* boxed as the predecessor of a new error.
from_foreign(fam, f, en, caps) ==
    Error(fam, ForeignLinkKind(f), State_new(fam, f, en, caps))

\* Error::kind(&self)
kind(e) == e.kind

\* std::error::Error::description / Display for an error value
description(e) == KindDescription(e.kind)

Display(e) == KindDisplay(e.kind)

\* std::error::Error::cause(&self)
cause(e) == e.state.next_error

\* Error::backtrace(&self) -> Option<&Backtrace>
backtrace(e) == IF e.state.backtrace = 0 THEN None ELSE Some(e.state.backtrace)

(***************************************************************************)
(* Iter: Option<&Error>, advanced along cause().                           *)
(***************************************************************************)
\* Iter::new(err)
Iter_new(e) == e

Iter_next_Stuck(self) ==
    IF self # None THEN [item |-> Some(self[1]), self0 |-> None]
    ELSE [item |-> None, self0 |-> None]

Iter_next_SkipsOne(self) ==
    IF self # None
    THEN [item |-> Some(self[1]),
          self0 |-> IF cause(self[1]) # None THEN cause(cause(self[1])[1]) ELSE None]
    ELSE [item |-> None, self0 |-> None]

\* Iter::next(): self.0.take(), then self.0 = e.cause()
Iter_next(self) ==
    IF self # None
    THEN [item |-> Some(self[1]), self0 |-> cause(self[1])]
    ELSE [item |-> None, self0 |-> None]

\* The items an iterator yields until next() returns None.
RECURSIVE IterCollect(_)
IterCollect(self) ==
    LET r == Iter_next(self)
    IN  IF r.item = None THEN <<>> ELSE <<r.item[1]>> \o IterCollect(r.self0)

\* Error::iter(&self)
iter(e) == Iter_new(Some(e))

\* iter().count()
count(e) == Len(IterCollect(iter(e)))

\* The chain of e as the data holds it: e, then the boxed predecessors.
RECURSIVE Chain(_)
Chain(e) ==
    IF e.state.next_error = None THEN <<e>>
    ELSE <<e>> \o Chain(e.state.next_error[1])

(***************************************************************************)
(* DisplayChain: one element per writeln!.                                 *)
(***************************************************************************)
\* {:?} of a Backtrace
FormatBacktrace(bt) == "stack backtrace: #" \o ToString(bt)

Skip1(s) == IF s = <<>> THEN <<>> ELSE Tail(s)

DisplayChain_fmt_NoSkip(e) ==
    <<"Error: " \o Display(e)>>
    \o [i \in 1..Len(IterCollect(iter(e))) |->
            "Caused by: " \o Display(IterCollect(iter(e))[i])]
    \o (IF backtrace(e) # None
        THEN <<FormatBacktrace(backtrace(e)[1])>> ELSE <<>>)

DisplayChain_fmt_BlankLine(e) ==
    LET causes == Skip1(IterCollect(iter(e)))
    IN  <<"Error: " \o Display(e)>>
        \o [i \in 1..Len(causes) |-> "Caused by: " \o Display(causes[i])]
        \o (IF backtrace(e) # None
            THEN <<FormatBacktrace(backtrace(e)[1])>> ELSE <<"">>)

\* impl fmt::Display for DisplayChain
DisplayChain_fmt(e) ==
    LET causes == Skip1(IterCollect(iter(e)))
    IN  <<"Error: " \o Display(e)>>
        \o [i \in 1..Len(causes) |-> "Caused by: " \o Display(causes[i])]
        \o (IF backtrace(e) # None
            THEN <<FormatBacktrace(backtrace(e)[1])>> ELSE <<>>)

(***************************************************************************)
(* bail! and ensure!.  A macro statement is                                *)
(*   [macro, cond, form, expr, fmt, args]                                  *)
(* form "expr": bail!(expr) / ensure!(cond, expr); form "fmt": the         *)
(* format-string arms.  An expression is [t, s, k]: a string (t = "str")   *)
(* or an ErrorKind (t = "kind").  A format string is a sequence of pieces, *)
(* the piece "{}" being a placeholder.                                     *)
(***************************************************************************)
Str(s) == [t |-> "str", s |-> s, k |-> None]

KindExpr(k) == [t |-> "kind", s |-> "", k |-> Some(k)]

\* format!(fmt, args)
RECURSIVE format(_, _)
format(fmt, args) ==
    IF fmt = <<>> THEN ""
    ELSE IF Head(fmt) = "{}"
         THEN ToString(Head(args)) \o format(Tail(fmt), Tail(args))
         ELSE Head(fmt) \o format(Tail(fmt), args)

\* expr.into(): From<&str>, From<String> and From<ErrorKind> for Error.
into(fam, x, en, caps) ==
    from_kind(fam, IF x.t = "str" THEN Msg(x.s) ELSE x.k[1], en, caps)

bail_FallsThrough(st, en, caps) == [returned |-> FALSE, value |-> None]

\* bail!: return Err($e.into()) / return Err(format!($fmt, $arg+).into())
bail(st, en, caps) ==
    IF st.form = "expr"
    THEN [returned |-> TRUE, value |-> Some(into("A", st.expr, en, caps))]
    ELSE [returned |-> TRUE,
          value |-> Some(into("A", Str(format(st.fmt, st.args)), en, caps))]

ensure_Inverted(st, en, caps) ==
    IF st.cond THEN bail(st, en, caps)
    ELSE [returned |-> FALSE, value |-> None]

\* ensure!: if !($cond) { bail!(..) }
ensure(st, en, caps) ==
    IF ~st.cond THEN bail(st, en, caps)
    ELSE [returned |-> FALSE, value |-> None]

Exprs ==
    {Str("x"), Str("bad 42"), KindExpr(InvalidToolchainName("xyzzy"))}

Stmt(m, c, f, x, fmt, args) ==
    [macro |-> m, cond |-> c, form |-> f, expr |-> x, fmt |-> fmt, args |-> args]

\* The macro statements the function foo is run with.
Stmts ==
    {Stmt("bail", FALSE, "expr", x, <<>>, <<>>) : x \in Exprs}
    \cup {Stmt("bail", FALSE, "fmt", Str(""), <<"bad ", "{}">>, <<42>>)}
    \cup {Stmt("ensure", c, "expr", x, <<>>, <<>>) : c \in BOOLEAN, x \in Exprs}
    \cup {Stmt("ensure", c, "fmt", Str(""), <<"bad ", "{}">>, <<42>>) :
             c \in BOOLEAN}

NoStmt == Stmt("none", TRUE, "expr", Str(""), <<>>, <<>>)

(***************************************************************************)
(* quick_main!: the result of the entry point (None: Ok, Some(e): Err(e))  *)
(* becomes the exit status and what is written to stderr.                  *)
(***************************************************************************)
quick_main(result) ==
    IF result = None
    THEN [code |-> 0, stderr |-> <<>>]
    ELSE [code |-> 1, stderr |-> DisplayChain_fmt(result[1])]

(***************************************************************************)
(* The state machine: one process, one propagating failure at a time.      *)
(*   enabled    the process-wide "capture backtraces" setting              *)
(*   captures   snapshots taken so far                                     *)
(*   err        the error value in hand (None: no failure pending)         *)
(*   prev, arg, op, capsBefore                                             *)
(*              the operand, the kind argument and the name of the last    *)
(*              operation, and captures before it                          *)
(*   origin     for an error that began as from_kind with a snapshot: that *)
(*              snapshot, captures right after it, and whether every       *)
(*              re-wrap since was done by a compatible family              *)
(*   it, yielded, item, nexts, iterating                                   *)
(*              a live Iter, the items it yielded, what the last next()    *)
(*              returned, the number of next() calls                       *)
(*   out        the text of the last display_chain rendering               *)
(*   got        what kind() and backtrace() last returned for err, kept    *)
(*              until the next traversal starts (None: not called yet)     *)
(*   pc, stmt, trace, ret                                                  *)
(*              the frame of fn foo() -> Result<()>                        *)
(*                 { before; <macro statement>; after; Ok(()) }            *)
(*   runs, exit, stderr                                                    *)
(*              calls of the entry point by quick_main, the exit status,   *)
(*              the diagnostic stream                                      *)
(***************************************************************************)
VARIABLES enabled, captures, err, prev, arg, op, capsBefore, origin,
          it, yielded, item, nexts, iterating, out, got,
          pc, stmt, trace, ret, runs, exit, stderr

\* Nothing was read from the error in hand yet.
NotRead == [kind |-> None, backtrace |-> None]

errVars == <<err, prev, arg, capsBefore, origin, captures>>
iterVars == <<it, yielded, item, nexts, iterating>>
frameVars == <<pc, stmt, trace, ret>>
mainVars == <<runs, exit, stderr>>
vars == <<enabled, op, out, got, errVars, iterVars, frameVars, mainVars>>

Init ==
    /\ enabled \in BOOLEAN
    /\ captures = 0
    /\ err = None
    /\ prev = None
    /\ arg = None
    /\ op = "init"
    /\ capsBefore = 0
    /\ origin = None
    /\ it = None
    /\ yielded = <<>>
    /\ item = None
    /\ nexts = 0
    /\ iterating = FALSE
    /\ out = <<>>
    /\ got = NotRead
    /\ pc = "idle"
    /\ stmt = NoStmt
    /\ trace = <<>>
    /\ ret = "none"
    /\ runs = 0
    /\ exit = None
    /\ stderr = <<>>

\* The process is running and no borrow or call is in the way.
Free == exit = None /\ ~iterating /\ pc \in {"idle", "returned"}

\* foo's frame is gone once its caller goes on.
FrameGone == pc' = "idle" /\ stmt' = NoStmt /\ trace' = <<>> /\ ret' = "none"

\* The new error e, built by operation name from operand p and kind k.
Built(name, e, p, k) ==
    /\ err' = Some(e)
    /\ prev' = p
    /\ arg' = k
    /\ op' = name
    /\ capsBefore' = captures
    /\ captures' = CapturesAfter(captures, e.state.backtrace)
    /\ out' = <<>> /\ got' = NotRead
    /\ UNCHANGED <<enabled, iterVars, mainVars>>

OriginOf(e, caps) ==
    IF e.state.backtrace # 0
    THEN Some([bt |-> e.state.backtrace, caps |-> caps, compatible |-> TRUE])
    ELSE None

Rewrapped(fam, e) ==
    IF origin = None THEN None
    ELSE Some([origin[1] EXCEPT !.compatible = @ /\ Compatible(fam, e)])

\* Err(kind.into()) / Error::from_kind(kind): a new failure.
DoFromKind(fam, k) ==
    /\ Free /\ err = None /\ captures < MaxCaptures
    /\ LET e == from_kind(fam, k, enabled, captures)
       IN  /\ Built("from_kind", e, None, Some(k))
           /\ origin' = OriginOf(e, CapturesAfter(captures, e.state.backtrace))
    /\ FrameGone

\* A std operation fails with a foreign error (with or without a cause).
DoForeign(d, c) ==
    /\ Free /\ err = None /\ captures < MaxCaptures
    /\ Built("foreign",
             ForeignError(d, IF c THEN Some(ForeignError("cause", None)) ELSE None),
             None, None)
    /\ origin' = None
    /\ FrameGone

\* Error::with_chain(err, k) of family fam.
DoWithChain(fam, k) ==
    /\ Free /\ err # None /\ Len(Chain(err[1])) < MaxDepth
    /\ Built("with_chain", with_chain(fam, err[1], k, enabled, captures),
             err, Some(k))
    /\ origin' = Rewrapped(fam, err[1])
    /\ FrameGone

\* err.chain_err(|| k)
DoChainErr(k) ==
    /\ Free /\ err # None /\ IsChained(err[1])
    /\ k \in KindsOf(err[1].fam)
    /\ Len(Chain(err[1])) < MaxDepth
    /\ Built("chain_err", chain_err(err[1], k, enabled, captures), err, Some(k))
    /\ origin' = Rewrapped(err[1].fam, err[1])
    /\ FrameGone

\* A B error converted into A through the link (From / ?).
DoFromLink(fam) ==
    /\ Free /\ err # None /\ err[1].fam \in Links(fam)
    /\ Built("from_link", from_link(fam, err[1]), err, None)
    /\ UNCHANGED origin
    /\ FrameGone

\* A foreign error converted into A through a foreign link (From / ?).
DoFromForeign(fam) ==
    /\ Free /\ err # None /\ err[1].fam = "F" /\ HasForeignLink(fam)
    /\ Len(Chain(err[1])) < MaxDepth
    /\ Built("from_foreign", from_foreign(fam, err[1], enabled, captures),
             err, None)
    /\ origin' = None
    /\ FrameGone

\* The failure is handled: the error is dropped.
DoDrop ==
    /\ Free /\ (err # None \/ pc = "returned")
    /\ err' = None /\ prev' = None /\ arg' = None /\ origin' = None
    /\ op' = "drop" /\ capsBefore' = captures /\ out' = <<>> /\ got' = NotRead
    /\ FrameGone
    /\ UNCHANGED <<enabled, captures, iterVars, mainVars>>

\* let it = err.iter()
DoIter ==
    /\ Free /\ err # None /\ IsChained(err[1])
    /\ it' = iter(err[1])
    /\ yielded' = <<>> /\ item' = None /\ nexts' = 0 /\ iterating' = TRUE
    /\ op' = "iter" /\ got' = NotRead
    /\ UNCHANGED <<enabled, out, errVars, frameVars, mainVars>>

\* it.next()
DoNext_TakesCause ==
    /\ iterating /\ nexts < MaxDepth + 2
    /\ LET r == Iter_next(it)
       IN  /\ it' = r.self0
           /\ item' = r.item
           /\ yielded' = IF r.item = None THEN yielded
                         ELSE Append(yielded, r.item[1])
    /\ nexts' = nexts + 1
    /\ op' = "next"
    /\ err' = Some([err[1] EXCEPT !.state.next_error = None])
    /\ UNCHANGED <<enabled, out, got, iterating, prev, arg, capsBefore,
                   origin, captures, frameVars, mainVars>>

DoNext_Restarts ==
    /\ iterating /\ nexts < MaxDepth + 2
    /\ LET r == Iter_next(IF it = None /\ item = None /\ nexts > 0
                          THEN err ELSE it)
       IN  /\ it' = r.self0
           /\ item' = r.item
           /\ yielded' = IF r.item = None THEN yielded
                         ELSE Append(yielded, r.item[1])
    /\ nexts' = nexts + 1
    /\ op' = "next"
    /\ UNCHANGED <<enabled, out, got, iterating, errVars, frameVars, mainVars>>

\* iter.next()
DoNext ==
    /\ iterating /\ nexts < MaxDepth + 2
    /\ LET r == Iter_next(it)
       IN  /\ it' = r.self0
           /\ item' = r.item
           /\ yielded' = IF r.item = None THEN yielded
                         ELSE Append(yielded, r.item[1])
    /\ nexts' = nexts + 1
    /\ op' = "next"
    /\ UNCHANGED <<enabled, out, got, iterating, errVars, frameVars, mainVars>>

\* The iterator goes out of scope.
DoIterDrop ==
    /\ iterating
    /\ it' = None /\ yielded' = <<>> /\ item' = None /\ nexts' = 0
    /\ iterating' = FALSE
    /\ op' = "iter_drop"
    /\ UNCHANGED <<enabled, out, got, errVars, frameVars, mainVars>>

\* err.display_chain().to_string()
DoDisplayChain ==
    /\ Free /\ err # None /\ IsChained(err[1])
    /\ out' = DisplayChain_fmt(err[1])
    /\ op' = "display_chain"
    /\ UNCHANGED <<enabled, got, errVars, iterVars, frameVars, mainVars>>

\* err.kind()
DoKind ==
    /\ Free /\ err # None /\ IsChained(err[1])
    /\ got' = [got EXCEPT !.kind = Some(kind(err[1]))]
    /\ op' = "kind"
    /\ UNCHANGED <<enabled, out, errVars, iterVars, frameVars, mainVars>>

\* err.backtrace()
DoBacktrace ==
    /\ Free /\ err # None /\ IsChained(err[1])
    /\ got' = [got EXCEPT !.backtrace = Some(backtrace(err[1]))]
    /\ op' = "backtrace"
    /\ UNCHANGED <<enabled, out, errVars, iterVars, frameVars, mainVars>>

\* foo() is called and runs up to its macro statement.
DoCall(st) ==
    /\ Free /\ pc = "idle" /\ err = None /\ captures < MaxCaptures
    /\ pc' = "macro" /\ stmt' = st /\ trace' = <<"before">> /\ ret' = "none"
    /\ op' = "call" /\ out' = <<>>
    /\ UNCHANGED <<enabled, got, errVars, iterVars, mainVars>>

\* The macro statement of foo.
DoMacro ==
    /\ pc = "macro"
    /\ LET o == IF stmt.macro = "bail" THEN bail(stmt, enabled, captures)
                ELSE ensure(stmt, enabled, captures)
       IN  IF o.returned
           THEN /\ pc' = "returned" /\ ret' = "err"
                /\ err' = o.value
                /\ captures' = CapturesAfter(captures, o.value[1].state.backtrace)
                /\ origin' = OriginOf(o.value[1],
                       CapturesAfter(captures, o.value[1].state.backtrace))
           ELSE /\ pc' = "after" /\ ret' = "none"
                /\ UNCHANGED <<err, captures, origin>>
    /\ capsBefore' = captures
    /\ op' = stmt.macro
    /\ UNCHANGED <<enabled, out, got, prev, arg, stmt, trace, iterVars, mainVars>>

\* The statement after the macro, then Ok(()).
DoAfter ==
    /\ pc = "after"
    /\ trace' = Append(trace, "after")
    /\ pc' = "returned" /\ ret' = "ok"
    /\ op' = "after"
    /\ UNCHANGED <<enabled, out, got, stmt, errVars, iterVars, mainVars>>

\* quick_main!(main): main returns what is pending, the process exits.
DoQuickMain ==
    /\ Free /\ (err # None => IsChained(err[1]))
    /\ LET q == quick_main(err)
       IN  exit' = Some(q.code) /\ stderr' = q.stderr
    /\ runs' = runs + 1
    /\ op' = "quick_main"
    /\ UNCHANGED <<enabled, out, got, errVars, iterVars, frameVars>>

Next ==
    \/ \E fam \in Families : \E k \in KindsOf(fam) : DoFromKind(fam, k)
    \/ \E d \in ForeignDescs : \E c \in BOOLEAN : DoForeign(d, c)
    \/ \E fam \in Families : \E k \in KindsOf(fam) : DoWithChain(fam, k)
    \/ \E k \in KindsOf("A") \cup KindsOf("B") : DoChainErr(k)
    \/ \E fam \in Families : DoFromLink(fam)
    \/ \E fam \in Families : DoFromForeign(fam)
    \/ DoDrop
    \/ DoIter
    \/ DoNext
    \/ DoIterDrop
    \/ DoDisplayChain
    \/ DoKind
    \/ DoBacktrace
    \/ \E st \in Stmts : DoCall(st)
    \/ DoMacro
    \/ DoAfter
    \/ DoQuickMain

Spec == Init /\ [][Next]_vars

(***************************************************************************)
(* Properties.                                                             *)
(***************************************************************************)
Last(q) == q[Len(q)]

\* o is the rendering of e: "Error: <e>", one "Caused by: <cause>" per
\* predecessor in chain order, then the backtrace when there is one, and
\* nothing else.
IsRendering(o, e) ==
    LET c == Chain(e)
        n == Len(c)
    IN  /\ Len(o) >= n
        /\ o[1] = "Error: " \o Display(e)
        /\ \A i \in 2..n : o[i] = "Caused by: " \o Display(c[i])
        /\ IF backtrace(e) = None
           THEN Len(o) = n
           ELSE Len(o) = n + 1 /\ o[n + 1] = FormatBacktrace(backtrace(e)[1])

\* C1: converting an error of the linked family B into family A adds no
\* chain entry: the A error iterates over exactly as many errors as the B
\* error's chain holds (one when B has no predecessor), keeps B's
\* predecessor, embeds B's kind with its payload unchanged in the link
\* variant, and displays as the B error does.
C1_LinkAddsNoEntry ==
    op = "from_link" =>
        LET a == err[1]
            b == prev[1]
        IN  /\ count(a) = Len(Chain(b))
            /\ (cause(b) = None => count(a) = 1)
            /\ cause(a) = cause(b)
            /\ kind(a).tag = "Link" /\ kind(a).inner = Some(kind(b))
            /\ Display(a) = Display(b)

C1_Witness ==
    /\ op = "from_link"
    /\ Len(Chain(prev[1])) = 2
    /\ kind(prev[1]) = Msg("something went wrong")
    /\ count(err[1]) = 2

C3_DisplayChainRendering ==
    op = "display_chain" => IsRendering(out, err[1])

C3_Witness ==
    /\ op = "display_chain"
    /\ Len(Chain(err[1])) = 3
    /\ backtrace(err[1]) = None
    /\ Len(out) = 3
    /\ out[3] = "Caused by: bad stuff"

C5_ChainErrPrepends ==
    op = "chain_err" =>
        LET e == prev[1]
            items == IterCollect(iter(err[1]))
        IN  /\ Len(items) = Len(Chain(e)) + 1
            /\ description(items[1]) = KindDescription(arg[1])
            /\ Display(items[1]) = KindDisplay(arg[1])
            /\ kind(err[1]) = arg[1]
            /\ items[2] = e
            /\ Tail(items) = Chain(e)
            /\ Last(items) = Last(Chain(e))

C5_Witness ==
    /\ op = "chain_err"
    /\ Len(Chain(prev[1])) = 2
    /\ count(err[1]) = 3
    /\ arg = Some(InvalidToolchainName("xyzzy"))

\* C6: from_kind(k) builds an error of kind k without a predecessor (no
\* cause, one iterated element) whose backtrace is a snapshot taken by this
\* call when capture is enabled, and absent, with no snapshot taken,
\* otherwise.
C6_FromKind ==
    op = "from_kind" =>
        LET e == err[1]
        IN  /\ kind(e) = arg[1]
            /\ cause(e) = None
            /\ count(e) = 1
            /\ IF enabled
               THEN /\ captures = capsBefore + 1
                    /\ backtrace(e) = Some(captures)
               ELSE /\ captures = capsBefore
                    /\ backtrace(e) = None

C6_Witness ==
    /\ op = "from_kind"
    /\ enabled
    /\ capsBefore = 1
    /\ backtrace(err[1]) = Some(2)

\* C7: bail! returns Err(expr.into()) at once; the statement after it
\* never runs; the format-string form gives the error bail! of the
\* formatted string gives: bail!("bad {}", 42) returns an error that
\* displays as "bad 42".
C7_BailReturns ==
    stmt.macro = "bail" =>
        /\ pc \in {"macro", "returned"}
        /\ trace = <<"before">>
        /\ pc = "returned" =>
              /\ ret = "err"
              /\ err = Some(into("A", IF stmt.form = "expr" THEN stmt.expr
                                      ELSE Str(format(stmt.fmt, stmt.args)),
                                 enabled, capsBefore))
              /\ (stmt.form = "expr" /\ stmt.expr.t = "str")
                     => Display(err[1]) = stmt.expr.s
              /\ (stmt.form = "fmt" /\ stmt.fmt = <<"bad ", "{}">>
                     /\ stmt.args = <<42>>)
                     => /\ Display(err[1]) = "bad 42"
                        /\ err = bail(Stmt("bail", FALSE, "expr", Str("bad 42"),
                                           <<>>, <<>>), enabled, capsBefore).value

C7_Witness ==
    /\ op = "bail"
    /\ pc = "returned"
    /\ stmt.form = "fmt"
    /\ ret = "err"
    /\ Display(err[1]) = "bad 42"

\* C8: ensure! with a false condition does what bail! of the same
\* arguments does (same early return, same error); with a true condition
\* it builds no error, changes nothing, and the function goes on with the
\* next statement and returns Ok.
C8_EnsureIsGuardedBail ==
    stmt.macro = "ensure" =>
        IF ~stmt.cond
        THEN /\ pc \in {"macro", "returned"}
             /\ trace = <<"before">>
             /\ pc = "returned" =>
                   LET b == bail([stmt EXCEPT !.macro = "bail"],
                                 enabled, capsBefore)
                   IN  /\ b.returned
                       /\ ret = "err"
                       /\ err = b.value
                       /\ captures =
                             CapturesAfter(capsBefore, b.value[1].state.backtrace)
        ELSE /\ pc \in {"macro", "after", "returned"}
             /\ err = None
             /\ pc = "after" =>
                   ret = "none" /\ trace = <<"before">> /\ captures = capsBefore
             /\ pc = "returned" =>
                   ret = "ok" /\ trace = <<"before", "after">>

C8_Witness ==
    /\ op = "ensure"
    /\ ~stmt.cond
    /\ pc = "returned"
    /\ ret = "err"
    /\ err # None /\ Display(err[1]) = "x"

\* C9: quick_main runs the entry point once: on success the exit status is
\* 0 and nothing is written to stderr; on failure the whole chain is
\* written as display_chain renders it and the exit status is 1; the entry
\* point is not run again.
C9_QuickMain ==
    /\ runs <= 1
    /\ exit = None => (runs = 0 /\ stderr = <<>>)
    /\ exit # None =>
          /\ runs = 1
          /\ IF err = None
             THEN exit = Some(0) /\ stderr = <<>>
             ELSE exit = Some(1) /\ IsRendering(stderr, err[1])

C9_Witness ==
    /\ exit = Some(1)
    /\ runs = 1
    /\ Len(Chain(err[1])) = 3
    /\ Len(stderr) = 4

\* C10: an iterator seeded at an error yields that error, then each
\* successive cause in order: the k-th next() returns the k-th error of
\* the chain and leaves the iterator at that error's cause; past the end it
\* returns nothing, so a chain of n errors gives n items.
C10_IterFollowsCauses ==
    iterating =>
        LET c == Chain(err[1])
            n == Len(c)
        IN  /\ yielded = SubSeq(c, 1, IF nexts < n THEN nexts ELSE n)
            /\ it = IF nexts < n THEN Some(c[nexts + 1]) ELSE None
            /\ op = "next" =>
                  item = IF nexts <= n THEN Some(c[nexts]) ELSE None
            /\ (op = "next" /\ item = None) => Len(yielded) = n

C10_Witness ==
    /\ iterating
    /\ op = "next"
    /\ nexts = 4
    /\ item = None
    /\ Len(yielded) = 3

\* C11: converting an error of a linked family into this family carries the
\* source error's backtrace over unchanged, Captured or Disabled alike,
\* and captures nothing.
C11_LinkKeepsBacktrace ==
    op = "from_link" =>
        /\ err[1].state.backtrace = prev[1].state.backtrace
        /\ backtrace(err[1]) = backtrace(prev[1])
        /\ enabled => backtrace(err[1]) # None
        /\ ~enabled => backtrace(err[1]) = None
        /\ captures = capsBefore

C11_Witness ==
    /\ op = "from_link"
    /\ backtrace(prev[1]) # None
    /\ backtrace(err[1]) = backtrace(prev[1])

\* C12: with_chain(predecessor, kind) stores the predecessor as the cause,
\* takes the predecessor's backtrace when one can be extracted and a fresh
\* capture otherwise; so backtrace() of the result is none only when
\* capturing is disabled and no error of the chain carries a backtrace.
C12_WithChainResolvesBacktrace ==
    op = "with_chain" =>
        LET e == err[1]
            x == extract_backtrace(e.fam, prev[1])
            c == Chain(e)
        IN  /\ cause(e) = prev
            /\ kind(e) = arg[1]
            /\ IF x # None
               THEN /\ e.state.backtrace = prev[1].state.backtrace
                    /\ captures = capsBefore
               ELSE /\ e.state.backtrace = InternalBacktraceNew(enabled, capsBefore)
                    /\ captures = CapturesAfter(capsBefore, e.state.backtrace)
            /\ backtrace(e) = None =>
                  /\ ~enabled
                  /\ \A i \in 1..Len(c) :
                        IsChained(c[i]) => c[i].state.backtrace = 0

C12_Witness ==
    /\ op = "with_chain"
    /\ extract_backtrace(err[1].fam, prev[1]) = None
    /\ cause(err[1]) = prev
    /\ backtrace(err[1]) = Some(capsBefore + 1)

\* The operations that only read the error in hand.
Readers == {"kind", "backtrace", "iter", "next", "iter_drop", "display_chain"}

\* C13: kind(), iter() with every next() up to and past the end,
\* backtrace() and display_chain() with its rendering leave the error's
\* kind, predecessor and backtrace as they were, and calling kind(),
\* backtrace() or display_chain() again on the same error returns what the
\* earlier call returned.
C13_ReadersLeaveErrorAlone ==
    [][op' \in Readers =>
          /\ err' = err
          /\ captures' = captures
          /\ (op' = "kind" /\ got.kind # None) => got'.kind = got.kind
          /\ (op' = "backtrace" /\ got.backtrace # None) =>
                got'.backtrace = got.backtrace
          /\ (op' = "display_chain" /\ out # <<>>) => out' = out]_vars

C13_Witness ==
    /\ op = "kind"
    /\ got.kind = Some(kind(err[1]))
    /\ got.backtrace = Some(backtrace(err[1]))
    /\ IsRendering(out, err[1])
    /\ Len(Chain(err[1])) = 3

C15_IterFusedForwardOnly ==
    [][(iterating /\ op' = "next") =>
          /\ (op = "next" /\ item = None) => item' = None
          /\ item' # None =>
                \A i \in 1..Len(yielded) : yielded[i] # item'[1]
          /\ Len(yielded') >= Len(yielded)
          /\ SubSeq(yielded', 1, Len(yielded)) = yielded]_vars

C15_Witness ==
    /\ iterating
    /\ op = "next"
    /\ nexts = Len(Chain(err[1])) + 2
    /\ Len(yielded) = 3
    /\ item = None
====
